---- MODULE Spec2Model ----
(***************************************************************************)
(* A model of src/main.py: the FastAPI relay between the WhatsApp Cloud    *)
(* API and an application.  One request is served at a time; a handler     *)
(* that issues an outbound HTTP call stops at the call until the upstream  *)
(* answers (requests has no timeout), and goes on from there.              *)
(***************************************************************************)
EXTENDS Integers, Sequences, FiniteSets, TLC

VARIABLES
    VERIFY_TOKEN,   \* os.getenv("WHATSAPP_VERIFY_TOKEN"): a str, or None when unset
    req,            \* the request being served
    pc,             \* where its handler stands
    calls,          \* the outbound HTTP calls the handler has issued, in order
    replies,        \* what the upstream answered to the calls that completed
    ret,            \* how the last sender operation ended for its caller
    resp,           \* the response sent to the client (NoResp: none yet)
    stdout          \* what the handler printed

vars == <<VERIFY_TOKEN, req, pc, calls, replies, ret, resp, stdout>>

(***************************************************************************)
(* Bounds of the model.                                                    *)
(***************************************************************************)
\* further entries, changes and messages after the first one of an envelope
MaxExtra == 1
\* the longest media payload, in bytes
MaxPayloadLen == 2

(***************************************************************************)
(* Python values: None, bool, int, str, list, dict (keys are strings).     *)
(***************************************************************************)
PNone == [tag |-> "none"]
PBool(b) == [tag |-> "bool", bool |-> b]
PInt(n) == [tag |-> "int", int |-> n]
PStr(s) == [tag |-> "str", str |-> s]
PList(l) == [tag |-> "list", list |-> l]
PDict(d) == [tag |-> "dict", dict |-> d]
EmptyDict == [k \in {} |-> PNone]

\* The outcome of evaluating an expression: a value, or an exception.
Ok(v) == [ok |-> TRUE, val |-> v]
Raise(e) == [ok |-> FALSE, exc |-> e]

\* s starts with p
StartsWith(s, p) == Len(s) >= Len(p) /\ SubSeq(s, 1, Len(p)) = p

\* p occurs in s (str.__contains__)
IsSubstring(p, s) ==
    \E i \in 0..Len(s) : i + Len(p) <= Len(s) /\ SubSeq(s, i + 1, i + Len(p)) = p

Digit(d) == SubSeq("0123456789", d + 1, d + 1)

RECURSIVE NatStr(_)
NatStr(n) == IF n < 10 THEN Digit(n) ELSE NatStr(n \div 10) \o Digit(n % 10)

\* str(v), as an f-string formats v
RECURSIVE PyStr(_)
RECURSIVE PyRepr(_)
RECURSIVE JoinRepr(_)
JoinRepr(l) ==
    IF l = <<>> THEN ""
    ELSE IF Len(l) = 1 THEN PyRepr(l[1])
    ELSE PyRepr(l[1]) \o ", " \o JoinRepr(Tail(l))
PyRepr(v) == IF v.tag = "str" THEN "'" \o v.str \o "'" ELSE PyStr(v)
PyStr(v) ==
    CASE v.tag = "str" -> v.str
      [] v.tag = "none" -> "None"
      [] v.tag = "bool" -> IF v.bool THEN "True" ELSE "False"
      [] v.tag = "int" -> IF v.int < 0 THEN "-" \o NatStr(-v.int) ELSE NatStr(v.int)
      [] v.tag = "list" -> "[" \o JoinRepr(v.list) \o "]"
      [] v.tag = "dict" /\ DOMAIN v.dict = {} -> "{}"

\* obj[key]
GetItem(obj, key) ==
    CASE obj.tag = "dict" ->
            IF key.tag = "str" /\ key.str \in DOMAIN obj.dict
            THEN Ok(obj.dict[key.str]) ELSE Raise("KeyError")
      [] obj.tag = "list" ->
            IF key.tag # "int" THEN Raise("TypeError")
            ELSE IF key.int >= 0 /\ key.int < Len(obj.list)
            THEN Ok(obj.list[key.int + 1]) ELSE Raise("IndexError")
      [] obj.tag = "str" ->
            IF key.tag # "int" THEN Raise("TypeError")
            ELSE IF key.int >= 0 /\ key.int < Len(obj.str)
            THEN Ok(PStr(SubSeq(obj.str, key.int + 1, key.int + 1)))
            ELSE Raise("IndexError")
      [] OTHER -> Raise("TypeError")

\* key in obj, for a str key
Contains(obj, key) ==
    CASE obj.tag = "dict" -> Ok(key \in DOMAIN obj.dict)
      [] obj.tag = "list" -> Ok(\E i \in 1..Len(obj.list) : obj.list[i] = PStr(key))
      [] obj.tag = "str" -> Ok(IsSubstring(key, obj.str))
      [] OTHER -> Raise("TypeError")

\* obj.get(key)
DictGet(obj, key) ==
    IF obj.tag # "dict" THEN Raise("AttributeError")
    ELSE IF key \in DOMAIN obj.dict THEN Ok(obj.dict[key]) ELSE Ok(PNone)

(***************************************************************************)
(* Configuration.                                                          *)
(***************************************************************************)
GRAPH_API_BASE == "https://graph.facebook.com/v18.0"
ACCESS_TOKEN == "EAAG"
PHONE_NUMBER_ID == "123456789"

\* the values WHATSAPP_VERIFY_TOKEN may have at startup
VerifyTokens == {PNone, PStr("my_verify_token"), PStr("t0ken")}

(***************************************************************************)
(* Responses.                                                              *)
(***************************************************************************)
NoResp == [status |-> 0, media |-> "", body |-> PNone]

\* starlette Response.render: None is an empty body, a str its encoding
Render(content) == IF content.tag = "none" THEN PStr("") ELSE PStr(content.str)

PlainTextResponse(content) ==
    [status |-> 200, media |-> "text/plain", body |-> Render(content)]

\* a dict returned by a handler
JSONResponse(content) ==
    [status |-> 200, media |-> "application/json", body |-> content]

\* a raised HTTPException, as FastAPI's handler answers it
HTTPException(status_code, detail) ==
    [status |-> status_code, media |-> "application/json",
     body |-> PDict([detail |-> PStr(detail)])]

\* an exception no handler catches, as the server answers it
InternalServerError ==
    [status |-> 500, media |-> "text/plain", body |-> PStr("Internal Server Error")]

StatusOk == PDict([status |-> PStr("ok")])

\* a handler starts on a fresh request: nothing is kept from the last one
Fresh ==
    /\ pc = "idle"
    /\ UNCHANGED VERIFY_TOKEN

(***************************************************************************)
(* GET /webhook                                                            *)
(***************************************************************************)
\* the values a query parameter may have (None: the parameter is absent)
Modes == {PNone, PStr("subscribe"), PStr("unsubscribe"), PStr("Subscribe")}
Tokens == VerifyTokens \cup {PStr("")}
Challenges == {PNone, PStr(""), PStr("1158201444"), PStr("ok")}

\* a faulty variant: the token is echoed in place of the challenge
verify_webhook_EchoToken(hub_mode, hub_verify_token, hub_challenge) ==
    IF hub_mode = PStr("subscribe") /\ hub_verify_token = VERIFY_TOKEN
    THEN PlainTextResponse(hub_verify_token)
    ELSE HTTPException(403, "Verification failed")

\* a faulty variant: either condition is enough
verify_webhook_Or(hub_mode, hub_verify_token, hub_challenge) ==
    IF hub_mode = PStr("subscribe") \/ hub_verify_token = VERIFY_TOKEN
    THEN PlainTextResponse(hub_challenge)
    ELSE HTTPException(403, "Verification failed")

verify_webhook(hub_mode, hub_verify_token, hub_challenge) ==
    IF hub_mode = PStr("subscribe") /\ hub_verify_token = VERIFY_TOKEN
    THEN PlainTextResponse(hub_challenge)
    ELSE HTTPException(403, "Verification failed")

GetWebhook ==
    /\ Fresh
    /\ \E m \in Modes, t \in Tokens, c \in Challenges :
          /\ req' = [op |-> "verify_webhook", mode |-> m, token |-> t, challenge |-> c]
          /\ resp' = verify_webhook(m, t, c)
    /\ pc' = "done"
    /\ calls' = <<>>
    /\ replies' = <<>>
    /\ ret' = PNone
    /\ stdout' = <<>>

(***************************************************************************)
(* GET /health                                                             *)
(***************************************************************************)
health == JSONResponse(PDict([status |-> PStr("healthy")]))

GetHealth ==
    /\ Fresh
    /\ req' = [op |-> "health"]
    /\ resp' = health
    /\ pc' = "done"
    /\ calls' = <<>>
    /\ replies' = <<>>
    /\ ret' = PNone
    /\ stdout' = <<>>


(***************************************************************************)
(* HTTP bodies on the wire, and the upstream's answers.                    *)
(***************************************************************************)
\* the serialisation of the JSON value v
JsonText(v) == [tag |-> "jsontext", value |-> v]
\* bytes that are no JSON document
Bytes(s) == [tag |-> "bytes", bytes |-> s]

\* json.loads of a body (request.json(), requests' Response.json())
JsonLoads(body) ==
    IF body.tag = "jsontext" THEN Ok(body.value) ELSE Raise("JSONDecodeError")

\* the upstream answered with a status, a Content-Type (None: no header), a body
HttpReply(status, ctype, body) ==
    [kind |-> "http", status |-> status, ctype |-> ctype, body |-> body]
\* the connection failed: requests raises ConnectionError
NetworkFailure ==
    [kind |-> "neterr", status |-> 0, ctype |-> PNone, body |-> Bytes("")]

MessageSent ==
    PDict([messaging_product |-> PStr("whatsapp"),
           messages |-> PList(<<PDict([id |-> PStr("wamid.1")])>>)])
GraphError(code) == PDict([error |-> PDict([code |-> PInt(code)])])

\* what the messages endpoint may answer
MessagesReplies ==
    {NetworkFailure,
     HttpReply(200, PStr("application/json"), JsonText(MessageSent)),
     HttpReply(400, PStr("application/json"), JsonText(GraphError(100))),
     HttpReply(401, PStr("application/json"), JsonText(GraphError(190))),
     HttpReply(500, PStr("application/json"), JsonText(GraphError(1))),
     HttpReply(502, PStr("text/html"), Bytes("<html>"))}

Headers == [Authorization |-> "Bearer " \o ACCESS_TOKEN, ContentType |-> "application/json"]

(***************************************************************************)
(* send_whatsapp_text                                                      *)
(***************************************************************************)
\* the call requests.post issues
TextCall(phone, message) ==
    [method |-> "POST",
     url |-> GRAPH_API_BASE \o "/" \o PHONE_NUMBER_ID \o "/messages",
     headers |-> Headers,
     json |-> PDict([messaging_product |-> PStr("whatsapp"),
                     to |-> phone,
                     type |-> PStr("text"),
                     text |-> PDict([body |-> message])])]

\* a faulty variant: response.raise_for_status() before the body is read
TextResultRaiseForStatus(reply) ==
    IF reply.kind = "neterr" THEN Raise("ConnectionError")
    ELSE IF reply.status >= 400 THEN Raise("HTTPError")
    ELSE LET json == JsonLoads(reply.body) IN
         IF ~json.ok THEN json
         ELSE Ok(PDict([status_code |-> PInt(reply.status), response |-> json.val]))

\* how send_whatsapp_text ends once the upstream has answered
TextResult(reply) ==
    IF reply.kind = "neterr" THEN Raise("ConnectionError")
    ELSE LET json == JsonLoads(reply.body) IN
         IF ~json.ok THEN json
         ELSE Ok(PDict([status_code |-> PInt(reply.status), response |-> json.val]))

(***************************************************************************)
(* POST /webhook                                                           *)
(***************************************************************************)
K(s) == PStr(s)
\* r[key], when r was evaluated without an exception
Then(r, key) == IF r.ok THEN GetItem(r.val, key) ELSE r

\* a faulty variant: the last element is taken
Last(r) ==
    IF r.ok /\ r.val.tag = "list" /\ Len(r.val.list) >= 1
    THEN Ok(r.val.list[Len(r.val.list)])
    ELSE Then(r, PInt(0))

\* r[0], when r was evaluated without an exception
First(r) == Then(r, PInt(0))

Line(label, v) == <<label, v>>

\* the handler goes to its return statement
Returns(prints) ==
    [kind |-> "return", prints |-> prints, phone |-> PNone, message |-> PNone]
\* the except clause: the exception is printed and swallowed
Caught(exc, prints) ==
    Returns(Append(prints, Line("Webhook parse error:", PStr(exc))))
\* the handler calls send_whatsapp_text(phone, message)
Sends(phone, message, prints) ==
    [kind |-> "send", prints |-> prints, phone |-> phone, message |-> message]

\* a faulty variant: the text goes back without the prefix
AutoReplyBare(text) == PStr(PyStr(text))

\* f"You said: {text}"
AutoReply(text) == PStr("You said: " \o PyStr(text))

\* a faulty variant: a missing text or body reads as None (dict.get)
TextBodyLenient(message) ==
    LET body == Then(Then(message, K("text")), K("body")) IN
    IF body.ok THEN body ELSE Ok(PNone)

\* message["text"]["body"]
TextBody(message) == Then(Then(message, K("text")), K("body"))

\* the branch of a message of type audio or image
MediaBranch(message, key, label, prints) ==
    LET media_id == Then(Then(Ok(message), K(key)), K("id")) IN
    IF ~media_id.ok THEN Caught(media_id.exc, prints)
    ELSE Returns(Append(prints, Line(label, media_id.val)))

MessageBranch(value) ==
    LET message == First(GetItem(value, K("messages")))
        sender_phone == Then(message, K("from"))
        msg_type == Then(message, K("type"))
    IN
    IF ~message.ok THEN Caught(message.exc, <<>>)
    ELSE IF ~sender_phone.ok THEN Caught(sender_phone.exc, <<>>)
    ELSE IF ~msg_type.ok THEN Caught(msg_type.exc, <<>>)
    ELSE LET prints == <<Line("Message from:", sender_phone.val),
                         Line("Type:", msg_type.val)>> IN
         IF msg_type.val = PStr("text")
         THEN LET text == TextBody(message) IN
              IF ~text.ok THEN Caught(text.exc, prints)
              ELSE Sends(sender_phone.val, AutoReply(text.val),
                         Append(prints, Line("Text:", text.val)))
         ELSE IF msg_type.val = PStr("audio")
         THEN MediaBranch(message.val, "audio", "Audio media id:", prints)
         ELSE IF msg_type.val = PStr("image")
         THEN MediaBranch(message.val, "image", "Image media id:", prints)
         ELSE Returns(prints)

StatusBranch(value) ==
    LET statuses == GetItem(value, K("statuses")) IN
    IF ~statuses.ok THEN Caught(statuses.exc, <<>>)
    ELSE Returns(<<Line("Status update:", statuses.val)>>)

\* the try block of receive_webhook, up to the call of the sender
Dispatch(data) ==
    LET entry == First(GetItem(data, K("entry")))
        change == First(Then(entry, K("changes")))
        value == Then(change, K("value"))
    IN
    IF ~value.ok THEN Caught(value.exc, <<>>)
    ELSE LET has_messages == Contains(value.val, "messages") IN
         IF ~has_messages.ok THEN Caught(has_messages.exc, <<>>)
         ELSE IF has_messages.val THEN MessageBranch(value.val)
         ELSE IF Contains(value.val, "statuses").val THEN StatusBranch(value.val)
         ELSE Returns(<<>>)

(***************************************************************************)
(* The request bodies POST /webhook is given.                              *)
(***************************************************************************)
\* a key that the dict does not hold
Absent == [tag |-> "absent"]
\* the dict {key: v}, or {} when the key is left out
Opt(key, v) == IF v = Absent THEN EmptyDict ELSE key :> v

RECURSIVE Repeat(_, _)
Repeat(x, n) == IF n = 0 THEN <<>> ELSE <<x>> \o Repeat(x, n - 1)

Senders == {Absent, PStr("15551230001"), PStr("15551230002")}
MsgTypes == {Absent, PNone, PStr("text"), PStr("audio"), PStr("image"), PStr("sticker")}
TextBodies == {Absent, PStr("hello"), PStr(""), PInt(7), PNone}
Texts == {Absent, PStr("hello")} \cup {PDict(Opt("body", b)) : b \in TextBodies}
Medias == {Absent, PDict(EmptyDict), PDict([id |-> PStr("media.1")])}

Message(from, type, text, audio, image) ==
    PDict(Opt("from", from) @@ Opt("type", type) @@ Opt("text", text)
          @@ Opt("audio", audio) @@ Opt("image", image))

Messages ==
    {Message(f, t, x, Absent, Absent) : f \in Senders, t \in MsgTypes, x \in Texts}
    \cup {Message(f, t, Absent, a, Absent) :
            f \in Senders, t \in {PStr("audio"), PStr("image")}, a \in Medias}
    \cup {Message(f, t, Absent, Absent, i) :
            f \in Senders, t \in {PStr("audio"), PStr("image")}, i \in Medias}
    \cup {PNone, PStr("text")}

\* a well-formed text message that follows the first one
ExtraMessage ==
    Message(PStr("15559990000"), PStr("text"), PDict([body |-> PStr("extra")]),
            Absent, Absent)

MessagesValues ==
    {PList(<<m>> \o Repeat(ExtraMessage, n)) : m \in Messages, n \in 0..MaxExtra}
    \cup {Absent, PList(<<>>), PNone, PStr("messages")}

StatusesValues == {Absent, PList(<<PDict([status |-> PStr("delivered")])>>)}

Values ==
    {PDict(Opt("messages", m) @@ Opt("statuses", s)) :
        m \in MessagesValues, s \in StatusesValues}
    \cup {PNone, PStr("messages"), PList(<<PStr("messages")>>),
          PList(<<PStr("statuses")>>), PStr("statuses")}

ExtraChange ==
    PDict([value |-> PDict([messages |-> PList(<<ExtraMessage>>)])])
ExtraEntry == PDict([changes |-> PList(<<ExtraChange>>)])

ChangesValues ==
    {PList(<<PDict([value |-> v])>> \o Repeat(ExtraChange, n)) :
        v \in Values, n \in 0..MaxExtra}
    \cup {Absent, PNone, PList(<<>>), PList(<<PNone>>), PList(<<PDict(EmptyDict)>>),
          PStr("changes")}

Envelopes ==
    {PDict([object |-> PStr("whatsapp_business_account"),
            entry |-> PList(<<PDict(Opt("changes", c))>> \o Repeat(ExtraEntry, n))]) :
        c \in ChangesValues, n \in 0..MaxExtra}
    \cup {PDict(Opt("entry", e)) :
            e \in {Absent, PNone, PList(<<>>), PList(<<PNone>>), PStr("entry"),
                   PDict(EmptyDict)}}
    \cup {PNone, PList(<<>>), PStr("entry"), PInt(1), PBool(TRUE)}

WebhookBodies == {JsonText(d) : d \in Envelopes} \cup {Bytes(""), Bytes("{not json")}

\* a faulty variant: the send is left to a background task, the handler returns
AwaitSendBackground(d) ==
    [pc |-> "receive_webhook:send_whatsapp_text", resp |-> JSONResponse(StatusOk),
     calls |-> <<TextCall(d.phone, d.message)>>]

\* the sender is called in-line: the handler stands at the call, and its
\* return statement is not reached, until the sender ends
AwaitSend(d) ==
    [pc |-> "receive_webhook:send_whatsapp_text", resp |-> NoResp,
     calls |-> <<TextCall(d.phone, d.message)>>]

\* receive_webhook, up to its return or to the call of the sender
PostWebhook ==
    /\ Fresh
    /\ \E body \in WebhookBodies :
          LET data == JsonLoads(body) IN
          /\ req' = [op |-> "receive_webhook", body |-> body]
          /\ IF ~data.ok
             THEN \* request.json() stands before the try block
                  /\ pc' = "done"
                  /\ resp' = InternalServerError
                  /\ calls' = <<>>
                  /\ stdout' = <<>>
             ELSE LET d == Dispatch(data.val) IN
                  /\ stdout' = d.prints
                  /\ IF d.kind = "send"
                     THEN /\ pc' = AwaitSend(d).pc
                          /\ calls' = AwaitSend(d).calls
                          /\ resp' = AwaitSend(d).resp
                     ELSE /\ pc' = "done"
                          /\ calls' = <<>>
                          /\ resp' = JSONResponse(StatusOk)
    /\ replies' = <<>>
    /\ ret' = PNone

\* the sender called by receive_webhook ends; the handler returns
WebhookSendDone ==
    /\ pc = "receive_webhook:send_whatsapp_text"
    /\ \E reply \in MessagesReplies :
          LET r == TextResult(reply) IN
          /\ replies' = Append(replies, reply)
          /\ ret' = r
          /\ stdout' = IF r.ok THEN stdout
                       ELSE Append(stdout, Line("Webhook parse error:", PStr(r.exc)))
    /\ resp' = JSONResponse(StatusOk)
    /\ pc' = "done"
    /\ UNCHANGED <<VERIFY_TOKEN, req, calls>>

(***************************************************************************)
(* POST /send-message                                                      *)
(***************************************************************************)
\* a request model built from the JSON body: a required field that is
\* missing fails the validation, a missing optional one takes its default
Field(raw, name, default) ==
    IF name \in DOMAIN raw.dict THEN Ok(raw.dict[name])
    ELSE IF default = Absent THEN Raise("ValidationError")
    ELSE Ok(default)

SendMessage(raw) ==
    LET phone == Field(raw, "phone", Absent)
        message == Field(raw, "message", Absent)
    IN IF ~phone.ok THEN phone
       ELSE IF ~message.ok THEN message
       ELSE Ok([phone |-> phone.val, message |-> message.val])

\* FastAPI's answer to a body that fails the validation
UnprocessableEntity ==
    [status |-> 422, media |-> "application/json",
     body |-> PDict([detail |-> PStr("Field required")])]

Phones == {Absent, PStr("1"), PStr("15551230001")}
TextsToSend == {Absent, PStr("hi"), PStr("")}
SendMessageBodies ==
    {PDict(Opt("phone", p) @@ Opt("message", m)) : p \in Phones, m \in TextsToSend}

\* send_message, up to the call of the sender
PostSendMessage ==
    /\ Fresh
    /\ \E raw \in SendMessageBodies :
          LET payload == SendMessage(raw) IN
          /\ req' = [op |-> "send_message", body |-> raw]
          /\ IF ~payload.ok
             THEN /\ pc' = "done"
                  /\ resp' = UnprocessableEntity
                  /\ calls' = <<>>
             ELSE /\ pc' = "send_message:send_whatsapp_text"
                  /\ resp' = NoResp
                  /\ calls' = <<TextCall(payload.val.phone, payload.val.message)>>
    /\ replies' = <<>>
    /\ ret' = PNone
    /\ stdout' = <<>>

\* the answer to a handler that returned a value or raised an exception
Answer(r) == IF r.ok THEN JSONResponse(r.val) ELSE InternalServerError

\* the sender called by send_message ends; what it returns is the response
SendMessageDone ==
    /\ pc = "send_message:send_whatsapp_text"
    /\ \E reply \in MessagesReplies :
          /\ replies' = Append(replies, reply)
          /\ ret' = TextResult(reply)
          /\ resp' = Answer(TextResult(reply))
    /\ pc' = "done"
    /\ UNCHANGED <<VERIFY_TOKEN, req, calls, stdout>>

(***************************************************************************)
(* POST /send-template                                                     *)
(***************************************************************************)
\* a faulty variant: another default language
SendTemplateDefaultEn(raw) ==
    LET phone == Field(raw, "phone", Absent)
        template_name == Field(raw, "template_name", Absent)
        language == Field(raw, "language", PStr("en"))
    IN IF ~phone.ok THEN phone
       ELSE IF ~template_name.ok THEN template_name
       ELSE Ok([phone |-> phone.val, template_name |-> template_name.val,
                language |-> language.val])

SendTemplate(raw) ==
    LET phone == Field(raw, "phone", Absent)
        template_name == Field(raw, "template_name", Absent)
        language == Field(raw, "language", PStr("en_US"))
    IN IF ~phone.ok THEN phone
       ELSE IF ~template_name.ok THEN template_name
       ELSE Ok([phone |-> phone.val, template_name |-> template_name.val,
                language |-> language.val])

\* the call requests.post issues
TemplateCall(payload) ==
    [method |-> "POST",
     url |-> GRAPH_API_BASE \o "/" \o PHONE_NUMBER_ID \o "/messages",
     headers |-> Headers,
     json |-> PDict([messaging_product |-> PStr("whatsapp"),
                     to |-> payload.phone,
                     type |-> PStr("template"),
                     template |-> PDict([name |-> payload.template_name,
                                         language |-> PDict([code |-> payload.language])])])]

\* how send_template ends once the upstream has answered
TemplateResult(reply) ==
    IF reply.kind = "neterr" THEN Raise("ConnectionError") ELSE JsonLoads(reply.body)

TemplateNames == {Absent, PStr("greet"), PStr("hello_world")}
Languages == {Absent, PStr("en_US"), PStr("fr"), PStr("")}
SendTemplateBodies ==
    {PDict(Opt("phone", p) @@ Opt("template_name", t) @@ Opt("language", l)) :
        p \in Phones, t \in TemplateNames, l \in Languages}

\* send_template, up to its outbound call
PostSendTemplate ==
    /\ Fresh
    /\ \E raw \in SendTemplateBodies :
          LET payload == SendTemplate(raw) IN
          /\ req' = [op |-> "send_template", body |-> raw]
          /\ IF ~payload.ok
             THEN /\ pc' = "done"
                  /\ resp' = UnprocessableEntity
                  /\ calls' = <<>>
             ELSE /\ pc' = "send_template:post"
                  /\ resp' = NoResp
                  /\ calls' = <<TemplateCall(payload.val)>>
    /\ replies' = <<>>
    /\ ret' = PNone
    /\ stdout' = <<>>

\* the upstream answers send_template's call
SendTemplateDone ==
    /\ pc = "send_template:post"
    /\ \E reply \in MessagesReplies :
          /\ replies' = Append(replies, reply)
          /\ ret' = TemplateResult(reply)
          /\ resp' = Answer(TemplateResult(reply))
    /\ pc' = "done"
    /\ UNCHANGED <<VERIFY_TOKEN, req, calls, stdout>>

(***************************************************************************)
(* GET /media/{media_id}                                                   *)
(***************************************************************************)
MediaIds == {"media.1", "media.2"}

ResolveCall(media_id) ==
    [method |-> "GET",
     url |-> GRAPH_API_BASE \o "/" \o media_id,
     headers |-> [Authorization |-> "Bearer " \o ACCESS_TOKEN]]

\* a faulty variant: the fetch call goes to the Graph API again
FetchCallGraph(media_url) ==
    [method |-> "GET",
     url |-> GRAPH_API_BASE \o "/" \o media_url,
     headers |-> [Authorization |-> "Bearer " \o ACCESS_TOKEN]]

FetchCall(media_url) ==
    [method |-> "GET",
     url |-> media_url,
     headers |-> [Authorization |-> "Bearer " \o ACCESS_TOKEN]]

\* requests prepares str(url): it raises, and calls nothing, unless the URL
\* has an http scheme and a host
PrepareUrl(url) ==
    LET u == PyStr(url) IN
    IF StartsWith(u, "https://")
    THEN IF Len(u) > Len("https://") THEN Ok(u) ELSE Raise("InvalidURL")
    ELSE IF StartsWith(u, "http://")
    THEN IF Len(u) > Len("http://") THEN Ok(u) ELSE Raise("InvalidURL")
    ELSE IF IsSubstring("://", u) THEN Raise("InvalidSchema")
    ELSE Raise("MissingSchema")

\* meta_res.json().get("url")
MediaUrl(reply) ==
    IF reply.kind = "neterr" THEN Raise("ConnectionError")
    ELSE LET json == JsonLoads(reply.body) IN
         IF ~json.ok THEN json ELSE DictGet(json.val, "url")

MediaInfo(url) == PDict(Opt("url", url) @@ Opt("mime_type", PStr("audio/ogg")))

\* what the upstream may answer to the resolve call
ResolveReplies ==
    {NetworkFailure,
     HttpReply(400, PStr("application/json"), JsonText(GraphError(100))),
     HttpReply(401, PStr("application/json"), JsonText(GraphError(190))),
     HttpReply(502, PStr("text/html"), Bytes("<html>"))}
    \cup {HttpReply(200, PStr("application/json"), JsonText(MediaInfo(u))) :
            u \in {PStr("https://cdn/f1"), PStr("http://cdn/f2")}}

RECURSIVE Payload(_)
Payload(n) == IF n = 0 THEN "" ELSE Payload(n - 1) \o "x"

\* what may answer the fetch call
FetchReplies ==
    {NetworkFailure}
    \cup {HttpReply(s, c, Bytes(Payload(n))) :
            s \in {200, 404}, c \in {PNone, PStr("audio/ogg")}, n \in 0..MaxPayloadLen}

\* get_media, up to the resolve call
GetMedia ==
    /\ Fresh
    /\ \E media_id \in MediaIds :
          /\ req' = [op |-> "get_media", media_id |-> media_id]
          /\ calls' = <<ResolveCall(media_id)>>
    /\ pc' = "get_media:resolve"
    /\ resp' = NoResp
    /\ replies' = <<>>
    /\ ret' = PNone
    /\ stdout' = <<>>

\* the resolve call ends; get_media goes on to the fetch call
MediaResolveDone ==
    /\ pc = "get_media:resolve"
    /\ \E reply \in ResolveReplies :
          LET media_url == MediaUrl(reply)
              prepared == IF media_url.ok THEN PrepareUrl(media_url.val) ELSE media_url
          IN
          /\ replies' = Append(replies, reply)
          /\ IF prepared.ok
             THEN /\ calls' = Append(calls, FetchCall(prepared.val))
                  /\ pc' = "get_media:fetch"
                  /\ resp' = NoResp
             ELSE /\ calls' = calls
                  /\ pc' = "done"
                  /\ resp' = InternalServerError
    /\ UNCHANGED <<VERIFY_TOKEN, req, ret, stdout>>

\* the content type and the size of what was fetched
MediaSummary(file_res) ==
    PDict([content_type |-> file_res.ctype,
           size |-> PInt(Len(file_res.body.bytes))])

\* the fetch call ends; get_media returns
MediaFetchDone ==
    /\ pc = "get_media:fetch"
    /\ \E reply \in FetchReplies :
          /\ replies' = Append(replies, reply)
          /\ resp' = IF reply.kind = "neterr" THEN InternalServerError
                     ELSE JSONResponse(MediaSummary(reply))
    /\ pc' = "done"
    /\ UNCHANGED <<VERIFY_TOKEN, req, calls, ret, stdout>>

\* the response is out and the request forgotten
Discard ==
    /\ pc = "done"
    /\ pc' = "idle"
    /\ req' = [op |-> "none"]
    /\ calls' = <<>>
    /\ replies' = <<>>
    /\ ret' = PNone
    /\ resp' = NoResp
    /\ stdout' = <<>>
    /\ UNCHANGED VERIFY_TOKEN

Init ==
    /\ VERIFY_TOKEN \in VerifyTokens
    /\ req = [op |-> "none"]
    /\ pc = "idle"
    /\ calls = <<>>
    /\ replies = <<>>
    /\ ret = PNone
    /\ resp = NoResp
    /\ stdout = <<>>

Next ==
    \/ GetWebhook
    \/ GetHealth
    \/ PostWebhook
    \/ WebhookSendDone
    \/ PostSendMessage
    \/ SendMessageDone
    \/ PostSendTemplate
    \/ SendTemplateDone
    \/ GetMedia
    \/ MediaResolveDone
    \/ MediaFetchDone
    \/ Discard

Spec == Init /\ [][Next]_vars

(***************************************************************************)
(* What the claims speak of, read off the request and the responses alone. *)
(***************************************************************************)
Served(op) == req.op = op /\ pc = "done"

AckResponse == [status |-> 200, media |-> "application/json", body |-> StatusOk]

HasKey(v, k) == v.tag = "dict" /\ k \in DOMAIN v.dict
HasFirst(v) == v.tag = "list" /\ Len(v.list) >= 1

HasEntry(d) == HasKey(d, "entry") /\ HasFirst(d.dict["entry"])
EntryOf(d) == d.dict["entry"].list[1]
HasChange(d) ==
    HasEntry(d) /\ HasKey(EntryOf(d), "changes") /\ HasFirst(EntryOf(d).dict["changes"])
ChangeOf(d) == EntryOf(d).dict["changes"].list[1]
HasValue(d) == HasChange(d) /\ HasKey(ChangeOf(d), "value")
ValueOf(d) == ChangeOf(d).dict["value"]
HasMessage(d) ==
    HasValue(d) /\ HasKey(ValueOf(d), "messages") /\ HasFirst(ValueOf(d).dict["messages"])
MessageOf(d) == ValueOf(d).dict["messages"].list[1]

\* the first message of the first change of the first entry has type "text"
FirstIsText(d) ==
    HasMessage(d) /\ HasKey(MessageOf(d), "type") /\ MessageOf(d).dict["type"] = PStr("text")

\* ... and has a sender and a text body
IsTextEnvelope(d) ==
    /\ FirstIsText(d)
    /\ HasKey(MessageOf(d), "from")
    /\ HasKey(MessageOf(d), "text")
    /\ HasKey(MessageOf(d).dict["text"], "body")
    /\ MessageOf(d).dict["text"].dict["body"].tag = "str"

\* a key or a list element the dispatcher navigates is missing
Malformed(d) ==
    \/ ~HasValue(d)
    \/ /\ HasKey(ValueOf(d), "messages")
       /\ \/ ~HasMessage(d)
          \/ ~HasKey(MessageOf(d), "from")
          \/ ~HasKey(MessageOf(d), "type")
          \/ /\ FirstIsText(d)
             /\ \/ ~HasKey(MessageOf(d), "text")
                \/ ~HasKey(MessageOf(d).dict["text"], "body")

\* POST /webhook is being served, on a body that is JSON
Delivery == req.op = "receive_webhook" /\ req.body.tag = "jsontext"
Data == req.body.value

Printed(label) == \E i \in 1..Len(stdout) : stdout[i][1] = label

(***************************************************************************)
(* C1. GET /webhook with mode "subscribe" and the token equal to the       *)
(* configured secret answers 200 with a text/plain body that is the        *)
(* challenge, unchanged (an empty body when no challenge was sent).        *)
(***************************************************************************)
C1_VerifyEchoesChallenge ==
    (Served("verify_webhook") /\ req.mode = PStr("subscribe") /\ req.token = VERIFY_TOKEN)
    => /\ resp.status = 200
       /\ resp.media = "text/plain"
       /\ resp.body = (IF req.challenge = PNone THEN PStr("") ELSE req.challenge)

C1_Witness ==
    /\ Served("verify_webhook")
    /\ req.mode = PStr("subscribe")
    /\ req.token = VERIFY_TOKEN
    /\ req.challenge = PStr("1158201444")
    /\ resp.body = PStr("1158201444")

(***************************************************************************)
(* C2. GET /webhook with a mode other than "subscribe", or a token other   *)
(* than the configured secret (absent parameters included), answers 403    *)
(* with the one fixed failure body: it carries neither the challenge nor   *)
(* anything that varies with the secret.                                   *)
(***************************************************************************)
C2_VerifyRejects ==
    (Served("verify_webhook") /\ (req.mode # PStr("subscribe") \/ req.token # VERIFY_TOKEN))
    => /\ resp = [status |-> 403, media |-> "application/json",
                  body |-> PDict([detail |-> PStr("Verification failed")])]
       /\ resp.body # req.challenge
       /\ resp.body # VERIFY_TOKEN

C2_Witness ==
    /\ Served("verify_webhook")
    /\ req.mode = PStr("subscribe")
    /\ req.token = PNone
    /\ VERIFY_TOKEN = PStr("my_verify_token")
    /\ req.challenge = PStr("1158201444")
    /\ resp.status = 403

(***************************************************************************)
(* C3. POST /webhook answers 200 {"status": "ok"} to every request body,   *)
(* whatever fails while it is handled.                                     *)
(***************************************************************************)
C3_AlwaysAcknowledges == Served("receive_webhook") => resp = AckResponse

(***************************************************************************)
(* C4. An envelope whose first message is a text message from S with body  *)
(* T triggers exactly one outbound text send, to S, with the body          *)
(* "You said: " followed by T, and the response is {"status": "ok"}.       *)
(***************************************************************************)
C4_TextIsEchoed ==
    (Delivery /\ IsTextEnvelope(Data))
    => /\ Len(calls) = 1
       /\ calls[1].method = "POST"
       /\ calls[1].url = "https://graph.facebook.com/v18.0/123456789/messages"
       /\ calls[1].json.dict["type"] = PStr("text")
       /\ calls[1].json.dict["to"] = MessageOf(Data).dict["from"]
       /\ calls[1].json.dict["text"] =
             PDict([body |-> PStr("You said: "
                                  \o MessageOf(Data).dict["text"].dict["body"].str)])
       /\ pc = "done" => resp = AckResponse

C4_Witness ==
    /\ Delivery
    /\ pc = "done"
    /\ IsTextEnvelope(Data)
    /\ MessageOf(Data).dict["text"].dict["body"] = PStr("hello")
    /\ MessageOf(Data).dict["from"] = PStr("15551230001")
    /\ calls[1].json.dict["text"].dict["body"] = PStr("You said: hello")
    /\ resp = AckResponse

(***************************************************************************)
(* C5. An envelope that misses a key or a list element the dispatcher      *)
(* navigates is answered {"status": "ok"} and triggers no outbound call.   *)
(***************************************************************************)
C5_MalformedIsAcknowledged ==
    (Delivery /\ Malformed(Data))
    => /\ pc = "done"
       /\ resp = AckResponse
       /\ calls = <<>>

C5_Witness ==
    /\ Delivery
    /\ pc = "done"
    /\ FirstIsText(Data)
    /\ HasKey(MessageOf(Data), "from")
    /\ HasKey(MessageOf(Data), "text")
    /\ ~HasKey(MessageOf(Data).dict["text"], "body")
    /\ Printed("Webhook parse error:")
    /\ resp = AckResponse

(***************************************************************************)
(* C6. GET /media/{media_id} issues exactly two outbound GET calls, the    *)
(* resolve call on the identifier and then the fetch call on the URL the   *)
(* resolve call returned, and reports the byte length of what the fetch    *)
(* call returned.  As stated, for every media identifier, and granting     *)
(* that the upstream answers every call made to it:                        *)
(***************************************************************************)
ResolveOf(media_id) ==
    [method |-> "GET",
     url |-> "https://graph.facebook.com/v18.0/" \o media_id,
     headers |-> [Authorization |-> "Bearer EAAG"]]

IsHttpUrl(u) ==
    \/ StartsWith(u, "https://") /\ Len(u) > 8
    \/ StartsWith(u, "http://") /\ Len(u) > 7

\* the resolve call was answered with a JSON object whose "url" can be fetched
Resolved ==
    /\ Len(replies) >= 1
    /\ replies[1].kind = "http"
    /\ replies[1].body.tag = "jsontext"
    /\ HasKey(replies[1].body.value, "url")
    /\ replies[1].body.value.dict["url"].tag = "str"
    /\ IsHttpUrl(replies[1].body.value.dict["url"].str)
ResolvedUrl == replies[1].body.value.dict["url"].str

C6_AlwaysTwoCalls ==
    (Served("get_media") /\ \A i \in 1..Len(replies) : replies[i].kind = "http")
    => /\ Len(calls) = 2
       /\ calls[1] = ResolveOf(req.media_id)
       /\ calls[2].method = "GET"
       /\ calls[2].url = ResolvedUrl
       /\ resp.status = 200
       /\ resp.body.dict["size"] = PInt(Len(replies[2].body.bytes))

(***************************************************************************)
(* C6, amended.  The first call is always the resolve call on the          *)
(* identifier.  When it is answered with a JSON object whose "url" is an   *)
(* http(s) URL, the fetch call on that URL follows it, and when that call  *)
(* is answered the proxy has issued exactly these two calls and reports    *)
(* the byte length of the fetched payload.  When the resolve call fails or *)
(* its answer holds no such URL, the resolve call is the only call and the *)
(* request fails; when the fetch call fails the request fails too.         *)
(***************************************************************************)
C6_TwoCallsWhenResolved ==
    (req.op = "get_media")
    => /\ Len(calls) >= 1
       /\ calls[1] = ResolveOf(req.media_id)
       /\ Len(replies) = 0 => (Len(calls) = 1 /\ resp = NoResp)
       /\ (Len(replies) >= 1 /\ ~Resolved)
            => (Len(calls) = 1 /\ pc = "done" /\ resp.status = 500)
       /\ Resolved
            => /\ Len(calls) = 2
               /\ calls[2].method = "GET"
               /\ calls[2].url = ResolvedUrl
               /\ Len(replies) = 1 => resp = NoResp
       /\ pc = "done" => Len(replies) = Len(calls)
       /\ (pc = "done" /\ Len(replies) = 2 /\ replies[2].kind = "http")
            => /\ resp.status = 200
               /\ resp.body.dict["size"] = PInt(Len(replies[2].body.bytes))
               /\ resp.body.dict["content_type"] = replies[2].ctype
       /\ (pc = "done" /\ Len(replies) = 2 /\ replies[2].kind = "neterr")
            => resp.status = 500

C6_Witness ==
    /\ Served("get_media")
    /\ Resolved
    /\ Len(calls) = 2
    /\ calls[2].url = "https://cdn/f1"
    /\ replies[2].kind = "http"
    /\ Len(replies[2].body.bytes) = 2
    /\ resp.body.dict["size"] = PInt(2)

(***************************************************************************)
(* C7. A fault of the outbound call of a text or template send (a network  *)
(* failure, an upstream 4xx or 5xx answer) is not caught: the send ends    *)
(* with an exception for its caller; and the call is made exactly once.    *)
(* As stated, of the sends of /send-message and /send-template:            *)
(***************************************************************************)
SendEnded ==
    /\ pc = "done"
    /\ req.op \in {"send_message", "send_template", "receive_webhook"}
    /\ Len(replies) = 1

C7_FaultsPropagate ==
    (SendEnded /\ req.op \in {"send_message", "send_template"}
        /\ (replies[1].kind = "neterr" \/ replies[1].status >= 400))
    => /\ ~ret.ok
       /\ Len(calls) = 1

(***************************************************************************)
(* C7, amended.  A send makes its call exactly once, whatever the outcome. *)
(* A network failure, or an answer whose body is not JSON, is not caught   *)
(* by the send: it ends with an exception for its caller (a 500 from       *)
(* /send-message and /send-template).  An upstream 4xx or 5xx answer with  *)
(* a JSON body is no fault: the send returns, a text send the status code  *)
(* and the parsed body, a template send the parsed body.                   *)
(***************************************************************************)
C7_OnlyTransportFaultsPropagate ==
    SendEnded
    => /\ Len(calls) = 1
       /\ replies[1].kind = "neterr" => ret = [ok |-> FALSE, exc |-> "ConnectionError"]
       /\ (replies[1].kind = "http" /\ replies[1].body.tag # "jsontext") => ~ret.ok
       /\ (replies[1].kind = "http" /\ replies[1].body.tag = "jsontext")
            => /\ ret.ok
               /\ ret.val = IF req.op = "send_template" THEN replies[1].body.value
                            ELSE PDict([status_code |-> PInt(replies[1].status),
                                        response |-> replies[1].body.value])
       /\ req.op # "receive_webhook"
            => resp = IF ret.ok
                      THEN [status |-> 200, media |-> "application/json", body |-> ret.val]
                      ELSE [status |-> 500, media |-> "text/plain",
                            body |-> PStr("Internal Server Error")]

C7_Witness ==
    /\ SendEnded
    /\ req.op = "send_message"
    /\ replies[1].kind = "http"
    /\ replies[1].status = 400
    /\ ret.ok
    /\ ret.val.dict["status_code"] = PInt(400)
    /\ resp.status = 200

(***************************************************************************)
(* C8. The payload POST /send-template builds carries the language of the  *)
(* request, "en_US" when the request names none, and the recipient and     *)
(* the template name of the request.                                       *)
(***************************************************************************)
C8_TemplateLanguageDefault ==
    (req.op = "send_template" /\ HasKey(req.body, "phone")
        /\ HasKey(req.body, "template_name"))
    => /\ Len(calls) = 1
       /\ calls[1].json.dict["type"] = PStr("template")
       /\ calls[1].json.dict["to"] = req.body.dict["phone"]
       /\ calls[1].json.dict["template"].dict["name"] = req.body.dict["template_name"]
       /\ calls[1].json.dict["template"].dict["language"] =
             PDict([code |-> IF HasKey(req.body, "language")
                             THEN req.body.dict["language"] ELSE PStr("en_US")])

C8_Witness ==
    /\ Served("send_template")
    /\ req.body = PDict([phone |-> PStr("1"), template_name |-> PStr("greet")])
    /\ calls[1].json.dict["template"].dict["language"].dict["code"] = PStr("en_US")

(***************************************************************************)
(* C9. When a delivery triggers the auto-reply, POST /webhook has no       *)
(* response while the send is in flight, and acknowledges once the send    *)
(* has ended (returned or failed): a send that never ends leaves the       *)
(* handler without a response.                                             *)
(***************************************************************************)
C9_AckWaitsForSend ==
    (Delivery /\ calls # <<>>)
    => IF replies = <<>>
       THEN resp = NoResp /\ pc = "receive_webhook:send_whatsapp_text"
       ELSE resp = AckResponse /\ pc = "done" /\ Len(replies) = 1

C9_Witness ==
    /\ Delivery
    /\ calls # <<>>
    /\ replies = <<>>
    /\ resp = NoResp

(***************************************************************************)
(* C10. A delivery triggers at most one outbound call, and none unless the *)
(* first message of the first change of the first entry has type "text":   *)
(* the call answers that message, never a further entry, change or         *)
(* message; and a value with both "messages" and "statuses" is handled as  *)
(* messages only.                                                          *)
(***************************************************************************)
C10_OnlyFirstTextTriggers ==
    Delivery
    => /\ Len(calls) <= 1
       /\ calls # <<>>
            => /\ FirstIsText(Data)
               /\ HasKey(MessageOf(Data), "from")
               /\ calls[1].json.dict["to"] = MessageOf(Data).dict["from"]
       /\ (HasValue(Data) /\ HasKey(ValueOf(Data), "messages"))
            => ~Printed("Status update:")
       /\ (pc = "done" /\ HasValue(Data) /\ ~HasKey(ValueOf(Data), "messages")
             /\ HasKey(ValueOf(Data), "statuses"))
            => (calls = <<>> /\ Printed("Status update:"))

C10_Witness ==
    /\ Delivery
    /\ pc = "done"
    /\ HasMessage(Data)
    /\ Len(ValueOf(Data).dict["messages"].list) >= 2
    /\ Len(EntryOf(Data).dict["changes"].list) >= 2
    /\ Len(Data.dict["entry"].list) >= 2
    /\ HasKey(ValueOf(Data), "statuses")
    /\ HasKey(MessageOf(Data), "type")
    /\ MessageOf(Data).dict["type"] = PStr("audio")
    /\ Printed("Audio media id:")
    /\ calls = <<>>

====
